---------------------------- MODULE Spec2Model ----------------------------
(***************************************************************************)
(* Beam Analysis Tool (src/Beam_Analysis_Tool.py): one interactive run of  *)
(* main() for a simply supported beam under a point load or a UDL.         *)
(*                                                                         *)
(* Python floats are modelled by exact decimal-scaled rationals            *)
(*     [n, d, e]  =  (n / d) * 10^e                                        *)
(* kept in a unique normal form, so that = on them is numeric equality.    *)
(* IEEE-754 rounding is not modelled: every arithmetic result below is the *)
(* exact value of the Python expression it is translated from.             *)
(***************************************************************************)
EXTENDS Integers, Sequences, FiniteSets, TLC

(***************************************************************************)
(* Bounds of the model.                                                    *)
(***************************************************************************)
\* largest number typed at a length prompt (beam length, load position)
MaxLen == 2
\* largest magnitude typed at a load prompt (point load, UDL intensity)
MaxLoad == 1
\* rejected entries (re-prompts of choice_input / positive_float) per run
MaxRetries == 1
\* number of positions np.linspace samples over [0, L] (400 in the source)
NumSamples == 5

(***************************************************************************)
(* Exact arithmetic standing for Python's float operators.                 *)
(***************************************************************************)
Abs(k) == IF k < 0 THEN -k ELSE k

RECURSIVE GCD(_, _)
GCD(x, y) == IF y = 0 THEN x ELSE GCD(y, x % y)

RECURSIVE Norm(_, _, _)
Norm(n, d, e) ==
    IF n = 0 THEN [n |-> 0, d |-> 1, e |-> 0]
    ELSE LET g == GCD(Abs(n), d) IN
         IF g > 1 THEN Norm(n \div g, d \div g, e)
         ELSE IF n % 10 = 0 THEN Norm(n \div 10, d, e + 1)
         ELSE IF d % 10 = 0 THEN Norm(n, d \div 10, e - 1)
         ELSE IF d % 2 = 0 THEN Norm(n * 5, d \div 2, e - 1)
         ELSE IF d % 5 = 0 THEN Norm(n * 2, d \div 5, e - 1)
         ELSE [n |-> n, d |-> d, e |-> e]

\* the float of an integer literal
F(k) == Norm(k, 1, 0)
\* the float literal k * 10^e (1e9, 1e-12, 0.001, ...)
Sci(k, e) == Norm(k, 1, e)

RECURSIVE Pow10(_)
Pow10(k) == IF k = 0 THEN 1 ELSE 10 * Pow10(k - 1)

Min(x, y) == IF x < y THEN x ELSE y

Neg(x) == [n |-> -x.n, d |-> x.d, e |-> x.e]

\* the common denominator is the least one, so that the intermediate values
\* stay as small as the operands allow
Add(x, y) ==
    LET m == Min(x.e, y.e)
        g == GCD(x.d, y.d)
    IN IF x.n = 0 THEN y
       ELSE IF y.n = 0 THEN x
       ELSE Norm(x.n * Pow10(x.e - m) * (y.d \div g)
                   + y.n * Pow10(y.e - m) * (x.d \div g),
                 (x.d \div g) * y.d, m)

Sub(x, y) == Add(x, Neg(y))

\* common factors are cancelled before the integers are multiplied, so that
\* no intermediate value is larger than the numerator of the result
RECURSIVE Times(_, _, _, _, _)
Times(n1, n2, d1, d2, e) ==
    IF n1 = 0 \/ n2 = 0 THEN [n |-> 0, d |-> 1, e |-> 0]
    ELSE IF GCD(Abs(n1), d2) > 1
      THEN Times(n1 \div GCD(Abs(n1), d2), n2, d1, d2 \div GCD(Abs(n1), d2), e)
    ELSE IF GCD(Abs(n2), d1) > 1
      THEN Times(n1, n2 \div GCD(Abs(n2), d1), d1 \div GCD(Abs(n2), d1), d2, e)
    ELSE IF n1 % 2 = 0 /\ n2 % 5 = 0 THEN Times(n1 \div 2, n2 \div 5, d1, d2, e + 1)
    ELSE IF n1 % 5 = 0 /\ n2 % 2 = 0 THEN Times(n1 \div 5, n2 \div 2, d1, d2, e + 1)
    ELSE Norm(n1 * n2, d1 * d2, e)

Mul(x, y) == Times(x.n, y.n, x.d, y.d, x.e + y.e)

\* 1 / y for y # 0
Inv(y) == IF y.n < 0 THEN Norm(-y.d, -y.n, -y.e) ELSE Norm(y.d, y.n, -y.e)

\* x / y for y # 0 (every divisor in the program is a product of positives)
Div(x, y) == Mul(x, Inv(y))

Sq(x) == Mul(x, x)
Cube(x) == Mul(x, Mul(x, x))
Pow4(x) == Mul(Sq(x), Sq(x))

Sign(x) == IF x.n > 0 THEN 1 ELSE IF x.n < 0 THEN -1 ELSE 0

\* A * 10^k < B for naturals, without forming the power
RECURSIVE Lt10(_, _, _)
Lt10(A, B, k) == IF k = 0 THEN A < B ELSE Lt10(A, (B + 9) \div 10, k - 1)

\* x < y for x, y > 0
PosLt(x, y) ==
    LET A == x.n * y.d
        B == y.n * x.d
        k == x.e - y.e
    IN IF k >= 0 THEN Lt10(A, B, k) ELSE ~Lt10(B, A + 1, -k)

Lt(x, y) ==
    IF Sign(x) # Sign(y) THEN Sign(x) < Sign(y)
    ELSE IF Sign(x) = 0 THEN FALSE
    ELSE IF Sign(x) > 0 THEN PosLt(x, y)
    ELSE PosLt(Neg(y), Neg(x))

Gt(x, y) == Lt(y, x)
Ge(x, y) == ~Lt(x, y)
FAbs(x) == IF x.n < 0 THEN Neg(x) ELSE x

Zero == F(0)


(***************************************************************************)
(* Unit conversion (value, unit tag) -> SI.                                *)
(***************************************************************************)
convert_length(value, unit) ==
    CASE unit = 1 -> value
      [] unit = 2 -> Div(value, F(1000))
      [] unit = 3 -> Div(value, F(100))

convert_E(value, unit) ==
    CASE unit = 1 -> Mul(value, Sci(1, 9))
      [] unit = 2 -> Mul(value, Sci(1, 6))

convert_I(value, unit) ==
    CASE unit = 1 -> Mul(value, Sci(1, -12))
      [] unit = 2 -> value

convert_load(value, unit) ==
    CASE unit = 1 -> value
      [] unit = 2 -> Mul(value, F(1000))

convert_udl(value, unit) ==
    CASE unit = 1 -> value
      [] unit = 2 -> Mul(value, F(1000))

\* axis_length returns (x scaled for display, label); the scaled x is kept
axis_length(x, unit) ==
    CASE unit = 1 -> x
      [] unit = 2 -> Mul(x, F(1000))
      [] unit = 3 -> Mul(x, F(100))

axis_label(unit) ==
    CASE unit = 1 -> "m"
      [] unit = 2 -> "mm"
      [] unit = 3 -> "cm"

(***************************************************************************)
(* Mechanics.                                                              *)
(***************************************************************************)
point_load_bad(PP, LL, EE, II, aa) ==
    LET b == Sub(LL, aa) IN
    Div(Mul(Mul(Mul(PP, aa), b), Add(Sub(Sq(LL), Sq(aa)), Sq(b))),
        Mul(Mul(Mul(F(6), EE), II), LL))

\* delta = (P*a*b*(L**2 - a**2 - b**2)) / (6*E*I*L)
point_load_ssb(PP, LL, EE, II, aa) ==
    LET b == Sub(LL, aa) IN
    Div(Mul(Mul(Mul(PP, aa), b), Sub(Sub(Sq(LL), Sq(aa)), Sq(b))),
        Mul(Mul(Mul(F(6), EE), II), LL))

\* delta = (5*w*(L**4)) / (384*E*I)
udl_ssb(ww, LL, EE, II) ==
    Div(Mul(Mul(F(5), ww), Pow4(LL)), Mul(Mul(F(384), EE), II))

\* np.linspace(0, L, NumSamples)[i], i = 0 .. NumSamples-1
linspace(LL, i) == Mul(F(i), Div(LL, F(NumSamples - 1)))

Idx == 0 .. (NumSamples - 1)

\* y[mask1] = (P*b*x/(6*L*E*I)) * (L**2 - b**2 - x**2)
defl_left(PP, LL, EE, II, aa, x) ==
    LET b == Sub(LL, aa) IN
    Mul(Div(Mul(Mul(PP, b), x), Mul(Mul(Mul(F(6), LL), EE), II)),
        Sub(Sub(Sq(LL), Sq(b)), Sq(x)))

\* y[mask2] = (P*a*(L-x)/(6*L*E*I)) * (L**2 - a**2 - (L-x)**2)
defl_right(PP, LL, EE, II, aa, x) ==
    Mul(Div(Mul(Mul(PP, aa), Sub(LL, x)), Mul(Mul(Mul(F(6), LL), EE), II)),
        Sub(Sub(Sq(LL), Sq(aa)), Sq(Sub(LL, x))))

\* y = zeros; y[x < a] = left branch; y[x >= a] = right branch
defl_point(PP, LL, EE, II, aa, x) ==
    IF Lt(x, aa) THEN defl_left(PP, LL, EE, II, aa, x)
    ELSE IF Ge(x, aa) THEN defl_right(PP, LL, EE, II, aa, x)
    ELSE Zero

defl_udl_bad(ww, LL, EE, II, x) ==
    Div(Mul(Mul(ww, x),
            Add(Sub(Cube(LL), Mul(Mul(F(2), LL), Sq(x))), Sq(x))),
        Mul(Mul(F(24), EE), II))

\* y = (w * x * (L**3 - 2*L*(x**2) + x**3)) / (24 * E * I)
defl_udl(ww, LL, EE, II, x) ==
    Div(Mul(Mul(ww, x),
            Add(Sub(Cube(LL), Mul(Mul(F(2), LL), Sq(x))), Cube(x))),
        Mul(Mul(F(24), EE), II))

reactions_point_bad(PP, LL, aa) ==
    LET b == Sub(LL, aa) IN
    <<Div(Mul(PP, b), LL), Div(Mul(PP, b), LL)>>

\* R1 = P*b/L, R2 = P*a/L
reactions_point_load(PP, LL, aa) ==
    LET b == Sub(LL, aa) IN
    <<Div(Mul(PP, b), LL), Div(Mul(PP, aa), LL)>>

\* R = w*L/2, returned twice
reactions_udl(ww, LL) ==
    LET R == Div(Mul(ww, LL), F(2)) IN <<R, R>>

shear_point_bad(RR1, PP, aa, x) ==
    IF Lt(x, aa) \/ x = aa THEN RR1 ELSE Sub(RR1, PP)

\* V = np.where(x < a, R1, R1 - P)
shear_point(RR1, PP, aa, x) ==
    IF Lt(x, aa) THEN RR1 ELSE Sub(RR1, PP)

\* the two arguments of np.where in plot_bmd_point
moment_left(RR1, x) == Mul(RR1, x)

moment_right_bad(RR1, PP, aa, x) == Sub(Mul(RR1, x), Mul(PP, x))

moment_right(RR1, PP, aa, x) == Sub(Mul(RR1, x), Mul(PP, Sub(x, aa)))

\* M = np.where(x < a, R1*x, R1*x - P*(x-a))
moment_point(RR1, PP, aa, x) ==
    IF Lt(x, aa) THEN moment_left(RR1, x) ELSE moment_right(RR1, PP, aa, x)

\* V = R - w*x with R = w*L/2
shear_udl(ww, LL, x) == Sub(Div(Mul(ww, LL), F(2)), Mul(ww, x))

\* M = R*x - (w*x**2)/2
moment_udl(ww, LL, x) ==
    Sub(Mul(Div(Mul(ww, LL), F(2)), x), Div(Mul(ww, Sq(x)), F(2)))

\* a plotted series: position x, displayed position xp, plotted value v
\* v[i] is the value computed for the i-th position
Series(LL, unit, v) ==
    [i \in Idx |->
        [x |-> linspace(LL, i),
         xp |-> axis_length(linspace(LL, i), unit),
         v |-> v[i]]]

RECURSIVE MinOver(_, _)
MinOver(s, i) ==
    IF i = 0 THEN s[0].v
    ELSE LET m == MinOver(s, i - 1) IN IF Lt(s[i].v, m) THEN s[i].v ELSE m

NEGLIGIBLE_DEFLECTION == Sci(1, -3)

(***************************************************************************)
(* State of one run of main().                                             *)
(*   pc         the prompt or statement main() is at                       *)
(*   out        the analysis messages printed so far, in order             *)
(*   reprompts  how often each retry message of choice_input and           *)
(*              positive_float has been printed                            *)
(*   sfd, bmd, curve, marker   the data handed to plt.plot / plt.scatter   *)
(***************************************************************************)
VARIABLES pc, L, Lunits, E, I, option, P, a, w,
          deflection, actual_deflection, R1, R2, LIMIT,
          out, reprompts, sfd, bmd, curve, marker

inputs == <<L, Lunits, E, I, option, P, a, w>>
results == <<deflection, actual_deflection, R1, R2, LIMIT>>
plots == <<sfd, bmd, curve, marker>>
vars == <<pc, inputs, results, out, reprompts, plots>>

\* what the user may type at a prompt: a number of S, or text that is none
Entries(S) == [kind : {"num"}, v : S] \cup {[kind |-> "text", v |-> 0]}

LenEntries == Entries(-1 .. MaxLen)
LoadEntries == Entries(-MaxLoad .. MaxLoad)
\* at the E and I prompts: 0 (rejected) or 1; the unit choice that follows
\* spreads the converted value over 1e9 / 1e6 Pa and 1e-12 / 1 m^4
StiffEntries == Entries({0, 1})
ChoiceEntries == Entries(0 .. 3)

Sites == {"choice_range", "choice_text", "float_range", "float_text"}

RECURSIVE SumOver(_, _)
SumOver(f, S) ==
    IF S = {} THEN 0
    ELSE LET x == CHOOSE y \in S : TRUE IN f[x] + SumOver(f, S \ {x})

\* the loop of choice_input / positive_float prints its message and prompts
\* again; the model follows at most MaxRetries rejected entries per run
Reject(site) ==
    /\ SumOver(reprompts, Sites) < MaxRetries
    /\ reprompts' = [reprompts EXCEPT ![site] = @ + 1]
    /\ pc' = pc

\* choice_input: the entry read at the prompt is rejected with a message
\* or returned; Chosen(en, valid) is the case it returns
Chosen(en, valid) == en.kind = "num" /\ en.v \in valid

choice_retry(en, valid) ==
    /\ ~Chosen(en, valid)
    /\ IF en.kind = "text" THEN Reject("choice_text")
                           ELSE Reject("choice_range")

\* positive_float: the same for a float that must be > 0
Positive(en) == en.kind = "num" /\ en.v > 0

positive_float_retry(en) ==
    /\ ~Positive(en)
    /\ IF en.kind = "text" THEN Reject("float_text")
                           ELSE Reject("float_range")

Init ==
    /\ pc = "start"
    /\ L = Zero /\ Lunits = 0 /\ E = Zero /\ I = Zero /\ option = 0
    /\ P = Zero /\ a = Zero /\ w = Zero
    /\ deflection = Zero /\ actual_deflection = Zero
    /\ R1 = Zero /\ R2 = Zero /\ LIMIT = Zero
    /\ out = <<>>
    /\ reprompts = [s \in Sites |-> 0]
    /\ sfd = <<>> /\ bmd = <<>> /\ curve = <<>> /\ marker = <<>>

Banner ==
    /\ pc = "start"
    /\ out' = Append(out, "BANNER")
    /\ pc' = "L"
    /\ UNCHANGED <<inputs, results, reprompts, plots>>

PromptL ==
    /\ pc = "L"
    /\ \E en \in LenEntries :
         \/ /\ Positive(en)
            /\ L' = F(en.v)
            /\ pc' = "Lunits"
            /\ UNCHANGED reprompts
         \/ positive_float_retry(en) /\ UNCHANGED L
    /\ UNCHANGED <<Lunits, E, I, option, P, a, w, results, out, plots>>

PromptLunits ==
    /\ pc = "Lunits"
    /\ \E en \in ChoiceEntries :
         \/ /\ Chosen(en, {1, 2, 3})
            /\ Lunits' = en.v
            /\ L' = convert_length(L, en.v)
            /\ pc' = "E"
            /\ UNCHANGED reprompts
         \/ choice_retry(en, {1, 2, 3}) /\ UNCHANGED <<L, Lunits>>
    /\ UNCHANGED <<E, I, option, P, a, w, results, out, plots>>

PromptE ==
    /\ pc = "E"
    /\ \E en \in StiffEntries :
         \/ /\ Positive(en)
            /\ E' = F(en.v)
            /\ pc' = "Eunits"
            /\ UNCHANGED reprompts
         \/ positive_float_retry(en) /\ UNCHANGED E
    /\ UNCHANGED <<L, Lunits, I, option, P, a, w, results, out, plots>>

PromptEunits ==
    /\ pc = "Eunits"
    /\ \E en \in ChoiceEntries :
         \/ /\ Chosen(en, {1, 2})
            /\ E' = convert_E(E, en.v)
            /\ pc' = "I"
            /\ UNCHANGED reprompts
         \/ choice_retry(en, {1, 2}) /\ UNCHANGED E
    /\ UNCHANGED <<L, Lunits, I, option, P, a, w, results, out, plots>>

PromptI ==
    /\ pc = "I"
    /\ \E en \in StiffEntries :
         \/ /\ Positive(en)
            /\ I' = F(en.v)
            /\ pc' = "Iunits"
            /\ UNCHANGED reprompts
         \/ positive_float_retry(en) /\ UNCHANGED I
    /\ UNCHANGED <<L, Lunits, E, option, P, a, w, results, out, plots>>

PromptIunits ==
    /\ pc = "Iunits"
    /\ \E en \in ChoiceEntries :
         \/ /\ Chosen(en, {1, 2})
            /\ I' = convert_I(I, en.v)
            /\ pc' = "check_I"
            /\ UNCHANGED reprompts
         \/ choice_retry(en, {1, 2}) /\ UNCHANGED I
    /\ UNCHANGED <<L, Lunits, E, option, P, a, w, results, out, plots>>

CheckInertiaAbort ==
    /\ pc = "check_I"
    /\ IF Lt(I, Sci(1, -10))
         THEN out' = Append(out, "WARN_INERTIA") /\ pc' = "done"
         ELSE out' = Append(out, "LOADING") /\ pc' = "option"
    /\ UNCHANGED <<inputs, results, reprompts, plots>>

\* if I < 1e-10: print the warning; then the loading header
CheckInertia ==
    /\ pc = "check_I"
    /\ out' = IF Lt(I, Sci(1, -10))
                THEN out \o <<"WARN_INERTIA", "LOADING">>
                ELSE Append(out, "LOADING")
    /\ pc' = "option"
    /\ UNCHANGED <<inputs, results, reprompts, plots>>

\* the load-type choice, then LIMIT = L * 1000 / 250
PromptOption ==
    /\ pc = "option"
    /\ \E en \in ChoiceEntries :
         \/ /\ Chosen(en, {1, 2})
            /\ option' = en.v
            /\ LIMIT' = Div(Mul(L, F(1000)), F(250))
            /\ pc' = IF en.v = 1 THEN "P" ELSE "w"
            /\ UNCHANGED reprompts
         \/ choice_retry(en, {1, 2}) /\ UNCHANGED <<option, LIMIT>>
    /\ UNCHANGED <<L, Lunits, E, I, P, a, w,
                   deflection, actual_deflection, R1, R2, out, plots>>

(***************************************************************************)
(* option == 1: point load.                                                *)
(***************************************************************************)
\* P = float(input(...)): outside any try, a ValueError ends the run
PromptP ==
    /\ pc = "P"
    /\ \E en \in LoadEntries :
         IF en.kind = "num"
           THEN P' = F(en.v) /\ pc' = "Punits"
           ELSE P' = P /\ pc' = "ValueError"
    /\ UNCHANGED <<L, Lunits, E, I, option, a, w, results, out, reprompts, plots>>

PromptPunits ==
    /\ pc = "Punits"
    /\ \E en \in ChoiceEntries :
         \/ /\ Chosen(en, {1, 2})
            /\ P' = convert_load(P, en.v)
            /\ pc' = "a"
            /\ UNCHANGED reprompts
         \/ choice_retry(en, {1, 2}) /\ UNCHANGED P
    /\ UNCHANGED <<L, Lunits, E, I, option, a, w, results, out, plots>>

\* a = float(input(...)): outside any try as well
PromptA ==
    /\ pc = "a"
    /\ \E en \in LenEntries :
         IF en.kind = "num"
           THEN a' = F(en.v) /\ pc' = "aunits"
           ELSE a' = a /\ pc' = "ValueError"
    /\ UNCHANGED <<L, Lunits, E, I, option, P, w, results, out, reprompts, plots>>

PromptAunits ==
    /\ pc = "aunits"
    /\ \E en \in ChoiceEntries :
         \/ /\ Chosen(en, {1, 2, 3})
            /\ a' = convert_length(a, en.v)
            /\ pc' = "check_a"
            /\ UNCHANGED reprompts
         \/ choice_retry(en, {1, 2, 3}) /\ UNCHANGED a
    /\ UNCHANGED <<L, Lunits, E, I, option, P, w, results, out, plots>>

InSpanClosed(aa, LL) == ~Lt(aa, Zero) /\ ~Lt(LL, aa)

\* 0 < a < L
InSpan(aa, LL) == Lt(Zero, aa) /\ Lt(aa, LL)

\* if not (0 < a < L): print the message and return
ValidatePosition ==
    /\ pc = "check_a"
    /\ IF InSpan(a, L)
         THEN out' = out /\ pc' = "deflection_point"
         ELSE out' = Append(out, "INVALID_POSITION") /\ pc' = "done"
    /\ UNCHANGED <<inputs, results, reprompts, plots>>

ComputePoint ==
    /\ pc = "deflection_point"
    /\ deflection' = point_load_ssb(P, L, E, I, a)
    /\ actual_deflection' = Mul(point_load_ssb(P, L, E, I, a), F(1000))
    /\ pc' = "reactions_point"
    /\ UNCHANGED <<inputs, R1, R2, LIMIT, out, reprompts, plots>>

ReactionsPoint ==
    /\ pc = "reactions_point"
    /\ R1' = reactions_point_load(P, L, a)[1]
    /\ R2' = reactions_point_load(P, L, a)[2]
    /\ out' = Append(out, "REACTIONS")
    /\ pc' = "serviceability_point"
    /\ UNCHANGED <<inputs, deflection, actual_deflection, LIMIT, reprompts, plots>>

\* if actual_deflection < NEGLIGIBLE_DEFLECTION: ... elif actual_deflection > LIMIT: ...
Classify(d, limit) ==
    IF Lt(d, NEGLIGIBLE_DEFLECTION) THEN "NEGLIGIBLE"
    ELSE IF Gt(d, limit) THEN "EXCEEDS"
    ELSE "NONE"

ServiceabilityPoint ==
    /\ pc = "serviceability_point"
    /\ out' = IF Classify(actual_deflection, LIMIT) = "NONE" THEN out
              ELSE Append(out, Classify(actual_deflection, LIMIT))
    /\ pc' = "result_point"
    /\ UNCHANGED <<inputs, results, reprompts, plots>>

ResultPoint ==
    /\ pc = "result_point"
    /\ out' = Append(out, "RESULT")
    /\ pc' = "sfd_point"
    /\ UNCHANGED <<inputs, results, reprompts, plots>>

PlotSfdPoint ==
    /\ pc = "sfd_point"
    /\ sfd' = Series(L, Lunits, [i \in Idx |-> shear_point(R1, P, a, linspace(L, i))])
    /\ out' = Append(out, "SFD")
    /\ pc' = "bmd_point"
    /\ UNCHANGED <<inputs, results, reprompts, bmd, curve, marker>>

PlotBmdPoint ==
    /\ pc = "bmd_point"
    /\ bmd' = Series(L, Lunits, [i \in Idx |-> moment_point(R1, P, a, linspace(L, i))])
    /\ out' = Append(out, "BMD")
    /\ pc' = "curve_point"
    /\ UNCHANGED <<inputs, results, reprompts, sfd, curve, marker>>

\* y_plot = y * 1000; the marker is scattered at (load_x, min(y_plot))
PlotDeflPoint ==
    /\ pc = "curve_point"
    /\ LET c == Series(L, Lunits,
                       [i \in Idx |-> Mul(defl_point(P, L, E, I, a, linspace(L, i)), F(1000))])
       IN /\ curve' = c
          /\ marker' = <<axis_length(a, Lunits), MinOver(c, NumSamples - 1)>>
    /\ out' = Append(out, "DEFLECTION_CURVE")
    /\ pc' = "complete"
    /\ UNCHANGED <<inputs, results, reprompts, sfd, bmd>>

(***************************************************************************)
(* option == 2: uniformly distributed load.                                *)
(***************************************************************************)
PromptW ==
    /\ pc = "w"
    /\ \E en \in Entries(0 .. MaxLoad) :
         \/ /\ Positive(en)
            /\ w' = F(en.v)
            /\ pc' = "wunits"
            /\ UNCHANGED reprompts
         \/ positive_float_retry(en) /\ UNCHANGED w
    /\ UNCHANGED <<L, Lunits, E, I, option, P, a, results, out, plots>>

PromptWunits ==
    /\ pc = "wunits"
    /\ \E en \in ChoiceEntries :
         \/ /\ Chosen(en, {1, 2})
            /\ w' = convert_udl(w, en.v)
            /\ pc' = "deflection_udl"
            /\ UNCHANGED reprompts
         \/ choice_retry(en, {1, 2}) /\ UNCHANGED w
    /\ UNCHANGED <<L, Lunits, E, I, option, P, a, results, out, plots>>

ComputeUdl ==
    /\ pc = "deflection_udl"
    /\ deflection' = udl_ssb(w, L, E, I)
    /\ actual_deflection' = Mul(udl_ssb(w, L, E, I), F(1000))
    /\ pc' = "reactions_udl"
    /\ UNCHANGED <<inputs, R1, R2, LIMIT, out, reprompts, plots>>

ReactionsUdl ==
    /\ pc = "reactions_udl"
    /\ R1' = reactions_udl(w, L)[1]
    /\ R2' = reactions_udl(w, L)[2]
    /\ out' = Append(out, "REACTIONS")
    /\ pc' = "serviceability_udl"
    /\ UNCHANGED <<inputs, deflection, actual_deflection, LIMIT, reprompts, plots>>

\* the elif branch of the UDL case also prints the RESULT block
ServiceabilityUdl ==
    /\ pc = "serviceability_udl"
    /\ out' = CASE Classify(actual_deflection, LIMIT) = "NEGLIGIBLE" ->
                     Append(out, "NEGLIGIBLE")
                [] Classify(actual_deflection, LIMIT) = "EXCEEDS" ->
                     out \o <<"EXCEEDS", "RESULT">>
                [] OTHER -> out
    /\ pc' = "result_udl"
    /\ UNCHANGED <<inputs, results, reprompts, plots>>

ResultUdl ==
    /\ pc = "result_udl"
    /\ out' = Append(out, "RESULT")
    /\ pc' = "sfd_udl"
    /\ UNCHANGED <<inputs, results, reprompts, plots>>

PlotSfdUdl ==
    /\ pc = "sfd_udl"
    /\ sfd' = Series(L, Lunits, [i \in Idx |-> shear_udl(w, L, linspace(L, i))])
    /\ out' = Append(out, "SFD")
    /\ pc' = "bmd_udl"
    /\ UNCHANGED <<inputs, results, reprompts, bmd, curve, marker>>

PlotBmdUdl ==
    /\ pc = "bmd_udl"
    /\ bmd' = Series(L, Lunits, [i \in Idx |-> moment_udl(w, L, linspace(L, i))])
    /\ out' = Append(out, "BMD")
    /\ pc' = "curve_udl"
    /\ UNCHANGED <<inputs, results, reprompts, sfd, curve, marker>>

PlotDeflUdl ==
    /\ pc = "curve_udl"
    /\ curve' = Series(L, Lunits,
                       [i \in Idx |-> Mul(defl_udl(w, L, E, I, linspace(L, i)), F(1000))])
    /\ out' = Append(out, "DEFLECTION_CURVE")
    /\ pc' = "complete"
    /\ UNCHANGED <<inputs, results, reprompts, sfd, bmd, marker>>

\* print("\nAnalysis Complete.")
Complete ==
    /\ pc = "complete"
    /\ out' = Append(out, "COMPLETE")
    /\ pc' = "done"
    /\ UNCHANGED <<inputs, results, reprompts, plots>>

Next ==
    \/ Banner
    \/ PromptL \/ PromptLunits
    \/ PromptE \/ PromptEunits
    \/ PromptI \/ PromptIunits
    \/ CheckInertia
    \/ PromptOption
    \/ PromptP \/ PromptPunits \/ PromptA \/ PromptAunits
    \/ ValidatePosition
    \/ ComputePoint \/ ReactionsPoint \/ ServiceabilityPoint \/ ResultPoint
    \/ PlotSfdPoint \/ PlotBmdPoint \/ PlotDeflPoint
    \/ PromptW \/ PromptWunits
    \/ ComputeUdl \/ ReactionsUdl \/ ServiceabilityUdl \/ ResultUdl
    \/ PlotSfdUdl \/ PlotBmdUdl \/ PlotDeflUdl
    \/ Complete

Spec == Init /\ [][Next]_vars

(***************************************************************************)
(* Properties.                                                             *)
(***************************************************************************)
Has(m) == \E i \in DOMAIN out : out[i] = m
Count(m) == Cardinality({i \in DOMAIN out : out[i] = m})
Pos(m) == CHOOSE i \in DOMAIN out : out[i] = m
AnalysisOutput ==
    {"REACTIONS", "NEGLIGIBLE", "EXCEEDS", "RESULT", "SFD", "BMD",
     "DEFLECTION_CURVE"}
PointSteps ==
    {"deflection_point", "reactions_point", "serviceability_point",
     "result_point", "sfd_point", "bmd_point", "curve_point"}
Classified == pc \in {"result_point", "result_udl"}

\* C1: in both load cases the serviceability message is chosen by the
\* absolute deflection: 'negligible' exactly when |d| < 0.001 mm, the L/250
\* warning exactly when |d| >= 0.001 mm and |d| > L/250, nothing otherwise
\* (so an upward load with |d| > L/250 gets the warning).
C1_ClassifiesByMagnitude ==
    Classified =>
        LET d == FAbs(actual_deflection)
            small == Lt(d, Sci(1, -3))
            span_mm == Mul(L, F(1000))
            over == Gt(d, Div(span_mm, F(250)))
        IN /\ Has("NEGLIGIBLE") <=> small
           /\ Has("EXCEEDS") <=> (~small /\ over)
           /\ ~(Has("NEGLIGIBLE") /\ Has("EXCEEDS"))

\* C2: the reactions are in static equilibrium: for a point load
\* R1 = P*(L-a)/L, R2 = P*a/L and R1 + R2 = P; for a UDL
\* R1 = R2 = w*L/2 and R1 + R2 = w*L.
C2_Equilibrium ==
    /\ pc = "serviceability_point" =>
          /\ R1 = Div(Mul(P, Sub(L, a)), L)
          /\ R2 = Div(Mul(P, a), L)
          /\ Add(R1, R2) = P
    /\ pc = "serviceability_udl" =>
          /\ R1 = R2
          /\ R1 = Div(Mul(w, L), F(2))
          /\ Add(R1, R2) = Mul(w, L)

C2_Witness ==
    /\ pc = "serviceability_point"
    /\ P.n < 0
    /\ R1 # R2

\* C3: the reported scalar deflection equals both branches of the plotted
\* point-load curve at x = a, and equals the plotted UDL curve at x = L/2.
C3_ScalarMatchesCurve ==
    /\ pc = "reactions_point" =>
          /\ deflection = defl_left(P, L, E, I, a, a)
          /\ deflection = defl_right(P, L, E, I, a, a)
    /\ pc = "reactions_udl" =>
          deflection = defl_udl(w, L, E, I, Div(L, F(2)))

C3_Witness ==
    /\ pc = "reactions_point"
    /\ deflection.n # 0
    /\ a # Div(L, F(2))

\* C4: in the point-load shear diagram every sample has V = R1 when x < a
\* and V = R1 - P when x >= a; a sample on x = a takes R1 - P, and the
\* diagram drops by exactly P across the load.
C4_ShearStep ==
    pc = "bmd_point" =>
        /\ DOMAIN sfd = Idx
        /\ \A i \in Idx :
              /\ Lt(sfd[i].x, a) => sfd[i].v = R1
              /\ ~Lt(sfd[i].x, a) => sfd[i].v = Sub(R1, P)
              /\ sfd[i].x = a => sfd[i].v = Sub(R1, P)
        /\ \A i, j \in Idx :
              (Lt(sfd[i].x, a) /\ ~Lt(sfd[j].x, a)) =>
                  Sub(sfd[i].v, sfd[j].v) = P

C4_Witness ==
    /\ pc = "bmd_point"
    /\ P.n # 0
    /\ \E i \in Idx : sfd[i].x = a

\* C5: the UDL deflection expression is symmetric about midspan,
\* y(x) = y(L - x), so on the sample grid the i-th sample from the left
\* equals the i-th sample from the right.
C5_UdlSymmetry ==
    (pc = "complete" /\ option = 2) =>
        \A i \in Idx :
            /\ curve[i].v = curve[NumSamples - 1 - i].v
            /\ defl_udl(w, L, E, I, curve[i].x)
                 = defl_udl(w, L, E, I, Sub(L, curve[i].x))

C5_Witness ==
    /\ pc = "complete" /\ option = 2
    /\ curve[1].v.n # 0
    /\ curve[1].v # curve[2].v

\* C6: the two branches of the point-load bending moment agree at x = a,
\* so the moment diagram has no jump at the load (the shear diagram has).
C6_MomentContinuous ==
    pc = "curve_point" =>
        /\ moment_left(R1, a) = moment_right(R1, P, a, a)
        /\ \A i \in Idx : bmd[i].x = a => bmd[i].v = Mul(R1, a)
        /\ P.n # 0 => R1 # Sub(R1, P)

C6_Witness ==
    /\ pc = "curve_point"
    /\ P.n # 0
    /\ \E i \in Idx : bmd[i].x = a

\* C7: a point-load run whose position a is not in (0, L) reports the
\* invalid position and stops: no reactions, serviceability message,
\* result or diagram is emitted, and no mechanics step runs with a
\* outside (0, L).
C7_InvalidPositionAborts ==
    /\ pc \in PointSteps => (Lt(Zero, a) /\ Lt(a, L))
    /\ (option = 1 /\ pc \in {"done", "complete"} /\ ~(Lt(Zero, a) /\ Lt(a, L)))
          => Has("INVALID_POSITION")
    /\ Has("INVALID_POSITION") =>
          /\ pc = "done"
          /\ \A m \in AnalysisOutput : ~Has(m)
          /\ ~Has("COMPLETE")
          /\ sfd = <<>> /\ bmd = <<>> /\ curve = <<>> /\ marker = <<>>
          /\ deflection = Zero /\ R1 = Zero /\ R2 = Zero

C7_Witness ==
    /\ Has("INVALID_POSITION")
    /\ a = L
    /\ P.n # 0

\* C8: a non-numeric entry at a numeric prompt (L, E, I, P, a, w) is
\* reported and aborts the analysis with no output; the run never ends in
\* an unhandled exception and never goes on to produce results.
C8_NonNumericAborts ==
    /\ pc # "ValueError"
    /\ reprompts["float_text"] > 0 => \A m \in AnalysisOutput : ~Has(m)

\* C9: the inertia warning (I < 1e-10 m^4) is advisory: the step that
\* prints it goes on to the load prompts and changes neither I nor any
\* other value, and a warned run with valid inputs emits the reactions,
\* the result and the three diagrams like an unwarned one.
C9_WarningAdvisory ==
    /\ [][pc = "check_I" =>
            /\ pc' = "option"
            /\ UNCHANGED <<inputs, results, plots, reprompts>>
            /\ SelectSeq(out', LAMBDA m : m # "WARN_INERTIA")
                 = Append(out, "LOADING")
            /\ (Count("WARN_INERTIA") = 1)' <=> Lt(I, Sci(1, -10))]_vars
    /\ [](( /\ pc = "done"
            /\ Has("WARN_INERTIA")
            /\ option = 2 \/ (option = 1 /\ Lt(Zero, a) /\ Lt(a, L)))
          => /\ Has("REACTIONS") /\ Has("RESULT") /\ Has("COMPLETE")
             /\ Has("SFD") /\ Has("BMD") /\ Has("DEFLECTION_CURVE")
             /\ sfd # <<>> /\ bmd # <<>> /\ curve # <<>>
             /\ deflection = IF option = 1
                               THEN point_load_ssb(P, L, E, I, a)
                               ELSE udl_ssb(w, L, E, I))

C9_Witness ==
    /\ pc = "done"
    /\ Has("WARN_INERTIA")
    /\ Has("COMPLETE")
    /\ option = 1

\* C10: a run that completes an analysis prints the RESULT block exactly
\* once, after the reactions and before the first diagram, whichever
\* serviceability outcome occurs.
C10_ResultOnce ==
    (pc = "done" /\ Has("COMPLETE")) =>
        /\ Count("RESULT") = 1
        /\ Pos("REACTIONS") < Pos("RESULT")
        /\ Pos("RESULT") < Pos("SFD")

=============================================================================
